---- MODULE Spec2Model ----
(***************************************************************************)
(* Model of Script2.py: reading commit objects from a git object store,   *)
(* decoding them, building the ancestry graph and rendering it as         *)
(* PlantUML.                                                               *)
(*                                                                         *)
(* A Python str is a sequence of one-character strings.  An optional      *)
(* value is a sequence of length 0 (None) or 1.                            *)
(***************************************************************************)
EXTENDS Integers, Sequences, FiniteSets, TLC

VARIABLES
    objects,               \* what was written into <repo>/.git/objects
    starting_commit_hash,  \* config["starting_commit_hash"]
    pc,                    \* position of the running call
    stack,                 \* get_commit_graph: the work stack
    commit_graph,          \* get_commit_graph: the dict being built
    reads,                 \* read_git_object calls made by get_commit_graph
    main_commit_graph,     \* main: commit_graph, once returned
    render,                \* generate_plantuml_graph: positions, text so far
    plantuml_code,         \* main: plantuml_code, once returned
    graph_puml,            \* contents of the file graph.puml, once written
    error,                 \* the exception that ended main, if any
    object_hash,           \* argument of a direct read_git_object call
    read_result,           \* what that call produced
    data_hash,           \* argument of a direct get_commit_data call
    commit_data            \* what that call produced

vars == <<objects, starting_commit_hash, pc, stack, commit_graph, reads,
          main_commit_graph, render, plantuml_code, graph_puml, error,
          object_hash, read_result, data_hash, commit_data>>

-----------------------------------------------------------------------------
(* Bounds of the model.                                                    *)

\* most parent entries, over all commits, written into the store
MaxEdges == 3
\* longest free-form commit text, in tokens, handed to get_commit_data
MaxTokens == 5
\* read counts saturate here
ReadCap == 2

None == <<>>
Some(v) == <<v>>

NL == "\n"
SP == " "
TAB == "\t"

\* the characters str.strip() and str.split() treat as whitespace
Whitespace == {SP, TAB, NL, "\r", "\f"}

ParentPrefix == <<"p", "a", "r", "e", "n", "t", SP>>

-----------------------------------------------------------------------------
(* Python str operations.                                                  *)

SetMin(S) == CHOOSE x \in S : \A y \in S : x <= y
SetMax(S) == CHOOSE x \in S : \A y \in S : x >= y

RECURSIVE Flatten(_)
Flatten(ss) == IF ss = <<>> THEN <<>> ELSE Head(ss) \o Flatten(Tail(ss))

\* s[:n] and s[n:]
Take(s, n) == SubSeq(s, 1, IF n < Len(s) THEN n ELSE Len(s))
Drop(s, n) == SubSeq(s, n + 1, Len(s))

\* the prefix test less its last character: line.startswith("parent")
startswith_token(s, prefix) ==
    /\ Len(s) >= Len(prefix) - 1
    /\ SubSeq(s, 1, Len(prefix) - 1) = SubSeq(prefix, 1, Len(prefix) - 1)

startswith(s, prefix) ==
    /\ Len(s) >= Len(prefix)
    /\ SubSeq(s, 1, Len(prefix)) = prefix

\* the k-th smallest member of a set of numbers
Kth(S, k) == CHOOSE x \in S : Cardinality({y \in S : y < x}) = k - 1

\* s.split(sep) for a one-character sep: the pieces between successive
\* occurrences of sep, always at least one (v holds the value of s)
SplitAt(v, sep) ==
    LET at == {i \in 1..Len(v) : v[i] = sep}
    IN  [k \in 1..(Cardinality(at) + 1) |->
            SubSeq(v, IF k = 1 THEN 1 ELSE Kth(at, k - 1) + 1,
                      IF k = Cardinality(at) + 1 THEN Len(v) ELSE Kth(at, k) - 1)]

split(s, sep) == CHOOSE fields \in { SplitAt(v, sep) : v \in {s} } : TRUE

\* s.split(): the maximal runs of characters that are not whitespace
WsSplit(v) ==
    LET starts == {i \in 1..Len(v) :
                      v[i] \notin Whitespace /\ (i = 1 \/ v[i - 1] \in Whitespace)}
        ends == {i \in 1..Len(v) :
                      v[i] \notin Whitespace /\ (i = Len(v) \/ v[i + 1] \in Whitespace)}
    IN  [k \in 1..Cardinality(starts) |-> SubSeq(v, Kth(starts, k), Kth(ends, k))]

split_ws(s) == CHOOSE fields \in { WsSplit(v) : v \in {s} } : TRUE

\* s.strip(): s from its first to its last character that is not whitespace
Stripped(v) ==
    LET keep == {i \in 1..Len(v) : v[i] \notin Whitespace}
    IN  IF keep = {} THEN <<>> ELSE SubSeq(v, SetMin(keep), SetMax(keep))

\* s.rstrip(): s up to its last character that is not whitespace
rstrip(s) ==
    CHOOSE t \in { SubSeq(v, 1, SetMax({0} \cup {i \in 1..Len(v) : v[i] \notin Whitespace})) :
                     v \in {s} } : TRUE

strip(s) == CHOOSE t \in { Stripped(v) : v \in {s} } : TRUE

-----------------------------------------------------------------------------
(* The object store.                                                       *)

\* identifiers of the commits that may be written into the store
CommitSeq == << <<"a", "b", "c">>, <<"a", "b", "d">>, <<"c", "d", "e">> >>
Commits == { CommitSeq[i] : i \in 1..Len(CommitSeq) }

\* identifiers too short to name a file below their two-character directory
ShortHashes == { <<>>, <<"a">>, <<"a", "b">>, <<"c", "d">>, <<"z", "z">> }

\* the message written for each commit
MessageOf(h) ==
    CASE h = CommitSeq[1] -> <<"f", "i", "x">>
      [] h = CommitSeq[2] -> <<"a", "d", "d", SP, "x">>
      [] OTHER -> <<SP, "u", "p", TAB, "y", NL, NL, "z", SP>>

RECURSIVE SeqsUpTo(_, _)
SeqsUpTo(S, n) ==
    IF n = 0 THEN { <<>> }
    ELSE LET shorter == SeqsUpTo(S, n - 1)
         IN  shorter \cup { Append(q, x) : q \in shorter, x \in S }

\* what the store holds for an identifier: nothing, a file that is not a
\* zlib stream, a zlib stream that is not UTF-8, a well-formed commit, or
\* a zlib stream of arbitrary text
Missing == [kind |-> "missing", parents |-> <<>>, message |-> <<>>, text |-> <<>>]
Corrupt == [kind |-> "corrupt", parents |-> <<>>, message |-> <<>>, text |-> <<>>]
Undecodable == [kind |-> "undecodable", parents |-> <<>>, message |-> <<>>, text |-> <<>>]
Commit(ps, m) == [kind |-> "commit", parents |-> ps, message |-> m, text |-> <<>>]
RawText(t) == [kind |-> "text", parents |-> <<>>, message |-> <<>>, text |-> t]

RECURSIVE ParentLines(_)
ParentLines(ps) ==
    IF ps = <<>> THEN <<>>
    ELSE ParentPrefix \o Head(ps) \o <<NL>> \o ParentLines(Tail(ps))

\* the commit text the tests write: tree, parents, author, blank line, message
CommitText(ps, m) ==
    <<"t", "r", "e", "e", SP, "t", NL>> \o ParentLines(ps)
        \o <<"a", "u", "t", "h", "o", "r", SP, "n", NL>> \o <<NL>> \o m \o <<NL>>

ObjectText(o) == IF o.kind = "text" THEN o.text ELSE CommitText(o.parents, o.message)

\* zlib.compress / zlib.decompress: only a deflate stream decompresses
zlib_compress(bytes) == [deflate |-> TRUE, bytes |-> bytes]
zlib_decompress(data) ==
    IF data.deflate THEN [ok |-> TRUE, bytes |-> data.bytes]
    ELSE [ok |-> FALSE, bytes |-> <<>>]

\* a byte that is never valid in UTF-8
BadByte == "xFF"

\* bytes.decode("utf-8"): every character of the model is one ASCII byte
utf8_decode(bytes) ==
    CHOOSE r \in { IF \E i \in 1..Len(b) : b[i] = BadByte
                   THEN [ok |-> FALSE, text |-> <<>>]
                   ELSE [ok |-> TRUE, text |-> b] : b \in {bytes} } : TRUE

\* the bytes of the file written for an object
FileData(o) ==
    CASE o.kind = "corrupt" -> [deflate |-> FALSE, bytes |-> <<"g">>]
      [] o.kind = "undecodable" -> zlib_compress(<<BadByte>>)
      [] OTHER -> zlib_compress(ObjectText(o))

Absent == [type |-> "absent", data |-> [deflate |-> FALSE, bytes |-> <<>>]]
Directory == [type |-> "dir", data |-> [deflate |-> FALSE, bytes |-> <<>>]]
File(d) == [type |-> "file", data |-> d]

\* What is at <repo>/.git/objects/<dir>/<name> once every object h of objs
\* is written to <h[:2]>/<h[2:]>.  os.path.join(p, "") is p itself, as a
\* directory: an empty name names the directory <dir>, and an empty dir
\* with an empty name names .git/objects.
PathEntry(objs, dir, name) ==
    LET present == {h \in DOMAIN objs : objs[h].kind # "missing"}
    IN  IF name = <<>>
        THEN IF dir = <<>> \/ \E h \in present : Take(h, 2) = dir
             THEN Directory ELSE Absent
        ELSE IF \E h \in present : Take(h, 2) = dir /\ Drop(h, 2) = name
             THEN File(FileData(objs[CHOOSE h \in present :
                                        Take(h, 2) = dir /\ Drop(h, 2) = name]))
             ELSE Absent

os_path_exists(objs, dir, name) == PathEntry(objs, dir, name).type # "absent"

-----------------------------------------------------------------------------
(* read_git_object and get_commit_data.                                    *)

Raised(e) == [ok |-> FALSE, err |-> e, text |-> <<>>]
Returned(t) == [ok |-> TRUE, err |-> "", text |-> t]

read_git_object(objs, hash) ==
    LET dir == Take(hash, 2)
        name == Drop(hash, 2)
        entry == PathEntry(objs, dir, name)
    IN  IF ~os_path_exists(objs, dir, name) THEN Raised("FileNotFoundError")
        ELSE IF entry.type = "dir" THEN Raised("IsADirectoryError")
        ELSE LET z == zlib_decompress(entry.data)
             IN  IF ~z.ok THEN Raised("zlib.error")
                 ELSE LET u == utf8_decode(z.bytes)
                      IN  IF ~u.ok THEN Raised("UnicodeDecodeError")
                          ELSE Returned(u.text)

DataRaised(e) == [ok |-> FALSE, err |-> e, parents |-> <<>>, message |-> <<>>]
DataReturned(ps, m) == [ok |-> TRUE, err |-> "", parents |-> ps, message |-> m]

\* the loop over the lines of a commit, from line i on
RECURSIVE ParseLines(_, _, _, _, _)
ParseLines(lines, i, parents, message, is_message) ==
    IF i > Len(lines) THEN DataReturned(parents, strip(message))
    ELSE LET line == lines[i]
         IN  IF is_message
             THEN ParseLines(lines, i + 1, parents, message \o line \o <<NL>>, TRUE)
             ELSE IF startswith(line, ParentPrefix)
             THEN LET fields == split(line, SP)
                  IN  IF Len(fields) < 2 THEN DataRaised("IndexError")
                      ELSE ParseLines(lines, i + 1, Append(parents, fields[2]),
                                      message, FALSE)
             ELSE IF line = <<>>
             THEN ParseLines(lines, i + 1, parents, message, TRUE)
             ELSE ParseLines(lines, i + 1, parents, message, FALSE)

\* a decoder that takes an object it cannot read for an empty commit
get_commit_data_lenient(objs, commit_hash) ==
    LET r == read_git_object(objs, commit_hash)
    IN  IF ~r.ok THEN DataReturned(<<>>, <<>>)
        ELSE CHOOSE data \in { ParseLines(lines, 1, <<>>, <<>>, FALSE) :
                                  lines \in {split(r.text, NL)} } : TRUE

get_commit_data(objs, commit_hash) ==
    LET r == read_git_object(objs, commit_hash)
    IN  IF ~r.ok THEN DataRaised(r.err)
        ELSE CHOOSE data \in { ParseLines(lines, 1, <<>>, <<>>, FALSE) :
                                  lines \in {split(r.text, NL)} } : TRUE

-----------------------------------------------------------------------------
(* get_commit_graph.  A dict is the sequence of its <<key, value>> items,  *)
(* in insertion order.                                                     *)

Keys(graph) == { graph[i][1] : i \in 1..Len(graph) }

\* a presence check that never finds the key
dict_contains_never(graph, key) == FALSE

\* current_commit in commit_graph
dict_contains(graph, key) == key \in Keys(graph)

\* commit_graph[current_commit] = parents
dict_set(graph, key, value) ==
    IF key \in Keys(graph)
    THEN [i \in 1..Len(graph) |->
            IF graph[i][1] = key THEN <<key, value>> ELSE graph[i]]
    ELSE Append(graph, <<key, value>>)

\* graph[key]
dict_get(graph, key) == graph[CHOOSE i \in 1..Len(graph) : graph[i][1] = key][2]

\* pushing only the last, or only the first, of the parents
stack_extend_last(stk, parents) ==
    IF parents = <<>> THEN stk ELSE Append(stk, parents[Len(parents)])
stack_extend_first(stk, parents) ==
    IF parents = <<>> THEN stk ELSE Append(stk, parents[1])

\* stack.extend(parents)
stack_extend(stk, parents) == stk \o parents

\* one more call of read_git_object for hash, counted up to ReadCap
CountRead(counts, hash) ==
    IF hash \in DOMAIN counts
    THEN [counts EXCEPT ![hash] = IF @ < ReadCap THEN @ + 1 ELSE @]
    ELSE [h \in DOMAIN counts \cup {hash} |-> IF h = hash THEN 1 ELSE counts[h]]

NoReads == [h \in {} |-> 0]
NoRender == [item |-> 0, parent |-> 0, commit_message |-> <<>>, code |-> <<>>]

\* main calls get_commit_graph(repo_path, starting_commit_hash)
CallGetCommitGraph ==
    /\ pc = "main"
    /\ pc' = "get_commit_graph"
    /\ commit_graph' = <<>>
    /\ stack' = <<starting_commit_hash>>
    /\ UNCHANGED <<render, objects, starting_commit_hash, reads, main_commit_graph,
                   plantuml_code, graph_puml, error, object_hash, read_result,
                   data_hash, commit_data>>

\* one iteration of `while stack`
GraphLoop ==
    /\ pc = "get_commit_graph"
    /\ stack # <<>>
    /\ LET current_commit == stack[Len(stack)]
           popped == SubSeq(stack, 1, Len(stack) - 1)
       IN  IF dict_contains(commit_graph, current_commit)
           THEN /\ stack' = popped
                /\ UNCHANGED <<pc, commit_graph, reads, error>>
           ELSE \E data \in {get_commit_data(objects, current_commit)} :
                    /\ reads' = CountRead(reads, current_commit)
                    /\ IF data.ok
                       THEN /\ commit_graph' =
                                  dict_set(commit_graph, current_commit, data.parents)
                            /\ stack' = stack_extend(popped, data.parents)
                            /\ UNCHANGED <<pc, error>>
                       ELSE \* the exception leaves get_commit_graph and main
                            /\ pc' = "failed"
                            /\ error' = Some([type |-> data.err,
                                              hash |-> current_commit,
                                              during |-> "get_commit_graph"])
                            /\ commit_graph' = <<>>
                            /\ stack' = <<>>
    /\ UNCHANGED <<render, objects, starting_commit_hash, main_commit_graph,
                   plantuml_code, graph_puml, object_hash, read_result,
                   data_hash, commit_data>>

\* `return commit_graph`, once the stack is empty
GraphReturn ==
    /\ pc = "get_commit_graph"
    /\ stack = <<>>
    /\ main_commit_graph' = Some(commit_graph)
    /\ pc' = "generate_plantuml_graph"
    /\ UNCHANGED <<render, objects, starting_commit_hash, stack, commit_graph, reads,
                   plantuml_code, graph_puml, error, object_hash, read_result,
                   data_hash, commit_data>>

-----------------------------------------------------------------------------
(* generate_plantuml_graph and save_plantuml_code.  In the generated text  *)
(* each literal fragment of an f-string is one element of the sequence.    *)

\* "".join(message.split())
Label(message) == Flatten(split_ws(message))

ParticipantLine(label, id) == <<"participant ">> \o label \o <<" as ">> \o id \o <<NL>>
\* the edge drawn from the commit to its parent
EdgeLine_reversed(parent, commit) ==
    <<"\"">> \o commit \o <<"\" --> \"">> \o parent \o <<"\"", NL>>

EdgeLine(parent, commit) ==
    <<"\"">> \o parent \o <<"\" --> \"">> \o commit \o <<"\"", NL>>

\* main calls generate_plantuml_graph(commit_graph, repo_path)
CallGenerate ==
    /\ pc = "generate_plantuml_graph"
    /\ render' = [item |-> 1, parent |-> 1, commit_message |-> <<>>,
                  code |-> <<"@startuml", NL>>]
    /\ pc' = "for_commit"
    /\ UNCHANGED <<objects, starting_commit_hash, stack, commit_graph, reads,
                   main_commit_graph, plantuml_code, graph_puml, error,
                   object_hash, read_result, data_hash, commit_data>>

\* `for commit, parents in commit_graph.items()`: the next item, its
\* message decoded and stripped of whitespace
ForCommit ==
    /\ pc = "for_commit"
    /\ render.item <= Len(main_commit_graph[1])
    /\ \E data \in {get_commit_data(objects, main_commit_graph[1][render.item][1])} :
          IF data.ok
          THEN /\ render' = [render EXCEPT !.commit_message = Label(data.message),
                                           !.parent = 1]
               /\ pc' = "for_parent"
               /\ UNCHANGED error
          ELSE /\ pc' = "failed"
               /\ error' = Some([type |-> data.err,
                                 hash |-> main_commit_graph[1][render.item][1],
                                 during |-> "generate_plantuml_graph"])
               /\ UNCHANGED render
    /\ UNCHANGED <<objects, starting_commit_hash, stack, commit_graph, reads,
                   main_commit_graph, plantuml_code, graph_puml, object_hash,
                   read_result, data_hash, commit_data>>

\* `for parent in parents`: the three lines of one edge
ForParent ==
    /\ pc = "for_parent"
    /\ render.parent <= Len(main_commit_graph[1][render.item][2])
    /\ LET commit == main_commit_graph[1][render.item][1]
           parent == main_commit_graph[1][render.item][2][render.parent]
       IN  \E pdata \in {get_commit_data(objects, parent)} :
              IF pdata.ok
              THEN /\ render' =
                        [render EXCEPT
                           !.code = @ \o ParticipantLine(Label(pdata.message), parent)
                                      \o ParticipantLine(render.commit_message, commit)
                                      \o EdgeLine(parent, commit),
                           !.parent = @ + 1]
                   /\ UNCHANGED <<pc, error>>
              ELSE /\ pc' = "failed"
                   /\ error' = Some([type |-> pdata.err, hash |-> parent,
                                     during |-> "generate_plantuml_graph"])
                   /\ UNCHANGED render
    /\ UNCHANGED <<objects, starting_commit_hash, stack, commit_graph, reads,
                   main_commit_graph, plantuml_code, graph_puml, object_hash,
                   read_result, data_hash, commit_data>>

\* the parents of the item are exhausted: on to the next item
EndForParent ==
    /\ pc = "for_parent"
    /\ render.parent > Len(main_commit_graph[1][render.item][2])
    /\ render' = [render EXCEPT !.item = @ + 1]
    /\ pc' = "for_commit"
    /\ UNCHANGED <<objects, starting_commit_hash, stack, commit_graph, reads,
                   main_commit_graph, plantuml_code, graph_puml, error,
                   object_hash, read_result, data_hash, commit_data>>

\* the items are exhausted: `plantuml_code += "@enduml"` and return
GenerateReturn ==
    /\ pc = "for_commit"
    /\ render.item > Len(main_commit_graph[1])
    /\ plantuml_code' = Some(render.code \o <<"@enduml">>)
    /\ pc' = "save_plantuml_code"
    /\ UNCHANGED <<objects, starting_commit_hash, stack, commit_graph, reads,
                   main_commit_graph, graph_puml, error, render, object_hash,
                   read_result, data_hash, commit_data>>

\* main calls save_plantuml_code(plantuml_code, "graph.puml") and returns
Save ==
    /\ pc = "save_plantuml_code"
    /\ graph_puml' = plantuml_code
    /\ pc' = "done"
    /\ UNCHANGED <<render, objects, starting_commit_hash, stack, commit_graph, reads,
                   main_commit_graph, plantuml_code, error, object_hash,
                   read_result, data_hash, commit_data>>

-----------------------------------------------------------------------------
(* main on a store of well-formed, missing and damaged commit objects.     *)

\* what may be written for commit h with at most n parent entries
ContentsOf(h, n) ==
    {Missing, Corrupt, Undecodable}
        \cup { Commit(ps, MessageOf(h)) : ps \in SeqsUpTo(Commits, n) }

\* the stores over the commits cs with at most n parent entries in all
RECURSIVE StoresOver(_, _)
StoresOver(cs, n) ==
    IF cs = <<>> THEN { [h \in {} |-> Missing] }
    ELSE UNION { { [h \in DOMAIN rest \cup {Head(cs)} |->
                      IF h = Head(cs) THEN o ELSE rest[h]] :
                   rest \in StoresOver(Tail(cs), n - Len(o.parents)) } :
                 o \in ContentsOf(Head(cs), n) }

Stores == StoresOver(CommitSeq, MaxEdges)

\* an empty repository, before the objects are written and main is run
Init ==
    /\ objects = [h \in Commits |-> Missing]
    /\ starting_commit_hash = <<>>
    /\ pc = "setUp"
    /\ stack = <<>>
    /\ commit_graph = <<>>
    /\ reads = NoReads
    /\ main_commit_graph = None
    /\ render = NoRender
    /\ plantuml_code = None
    /\ graph_puml = None
    /\ error = None
    /\ object_hash = <<>>
    /\ read_result = None
    /\ data_hash = <<>>
    /\ commit_data = None

\* the objects are written into the store and the configuration names the
\* starting commit; main starts
SetUp ==
    /\ pc = "setUp"
    /\ objects' \in Stores
    /\ starting_commit_hash' \in Commits
    /\ pc' = "main"
    /\ UNCHANGED <<render, stack, commit_graph, reads, main_commit_graph,
                   plantuml_code, graph_puml, error, object_hash, read_result,
                   data_hash, commit_data>>

\* the steps of generate_plantuml_graph
RenderStep ==
    CallGenerate \/ ForCommit \/ ForParent \/ EndForParent \/ GenerateReturn

\* the steps of main
MainStep ==
    CallGetCommitGraph \/ GraphLoop \/ GraphReturn \/ RenderStep \/ Save

Next == SetUp \/ MainStep

Spec == Init /\ [][Next]_vars

\* main, once started, is not suspended forever while it has a step to take
LiveSpec == Spec /\ WF_vars(MainStep)

-----------------------------------------------------------------------------
(* get_commit_data called on an object holding free-form text.             *)

Tokens ==
    { <<"p", "a", "r", "e", "n", "t">>, ParentPrefix,
      <<SP>>, <<TAB>>, <<NL>>, <<"x">>, <<"y">> }

Texts == { Flatten(ts) : ts \in SeqsUpTo(Tokens, MaxTokens) }

DecodeInit ==
    /\ \E text \in Texts :
          objects = [h \in Commits |->
                        IF h = CommitSeq[1] THEN RawText(text) ELSE Missing]
    /\ data_hash = CommitSeq[1]
    /\ pc = "get_commit_data"
    /\ commit_data = None
    /\ starting_commit_hash = <<>>
    /\ stack = <<>>
    /\ commit_graph = <<>>
    /\ reads = NoReads
    /\ main_commit_graph = None
    /\ render = NoRender
    /\ plantuml_code = None
    /\ graph_puml = None
    /\ error = None
    /\ object_hash = <<>>
    /\ read_result = None

GetCommitData ==
    /\ pc = "get_commit_data"
    /\ commit_data' = Some(get_commit_data(objects, data_hash))
    /\ pc' = "returned"
    /\ UNCHANGED <<render, objects, starting_commit_hash, stack, commit_graph, reads,
                   main_commit_graph, plantuml_code, graph_puml, error,
                   object_hash, read_result, data_hash>>

DecodeSpec == DecodeInit /\ [][GetCommitData]_vars

-----------------------------------------------------------------------------
(* read_git_object called with any identifier, short ones included.        *)

ReadInit ==
    /\ objects \in StoresOver(CommitSeq, 1)
    /\ object_hash \in Commits \cup ShortHashes
    /\ pc = "read_git_object"
    /\ read_result = None
    /\ starting_commit_hash = <<>>
    /\ stack = <<>>
    /\ commit_graph = <<>>
    /\ reads = NoReads
    /\ main_commit_graph = None
    /\ render = NoRender
    /\ plantuml_code = None
    /\ graph_puml = None
    /\ error = None
    /\ data_hash = <<>>
    /\ commit_data = None

ReadGitObject ==
    /\ pc = "read_git_object"
    /\ read_result' = Some(read_git_object(objects, object_hash))
    /\ pc' = "returned"
    /\ UNCHANGED <<render, objects, starting_commit_hash, stack, commit_graph, reads,
                   main_commit_graph, plantuml_code, graph_puml, error,
                   object_hash, data_hash, commit_data>>

ReadSpec == ReadInit /\ [][ReadGitObject]_vars

-----------------------------------------------------------------------------
(* generate_plantuml_graph called on any small graph, closed under parents *)
(* or not, over a store in which some of the commits may be missing.       *)

\* the graphs with distinct keys from ks and at most n parent entries in all
RECURSIVE GraphsOver(_, _)
GraphsOver(ks, n) ==
    { <<>> } \cup
    UNION { { << <<k, ps>> >> \o rest :
                rest \in GraphsOver(ks \ {k}, n - Len(ps)) } :
            k \in ks, ps \in SeqsUpTo(Commits, n) }

RenderStores ==
    { [h \in Commits |-> IF h \in S THEN Commit(<<>>, MessageOf(h)) ELSE Missing] :
      S \in SUBSET Commits }

RenderInit ==
    /\ objects \in RenderStores
    /\ main_commit_graph \in { Some(g) : g \in GraphsOver(Commits, MaxEdges) }
    /\ pc = "generate_plantuml_graph"
    /\ starting_commit_hash = <<>>
    /\ stack = <<>>
    /\ commit_graph = <<>>
    /\ reads = NoReads
    /\ render = NoRender
    /\ plantuml_code = None
    /\ graph_puml = None
    /\ error = None
    /\ object_hash = <<>>
    /\ read_result = None
    /\ data_hash = <<>>
    /\ commit_data = None

RenderSpec == RenderInit /\ [][RenderStep]_vars

-----------------------------------------------------------------------------
(* What the store says, read off the objects as written (not decoded).     *)

Readable(h) == h \in DOMAIN objects /\ objects[h].kind = "commit"

Range(s) == { s[i] : i \in 1..Len(s) }

\* identifiers reachable from the members of S by parent links
RECURSIVE ReachFrom(_)
ReachFrom(S) ==
    LET more == S \cup UNION { Range(objects[h].parents) : h \in {x \in S : Readable(x)} }
    IN  IF more = S THEN S ELSE ReachFrom(more)

Reachable == ReachFrom({starting_commit_hash})

AllReachableReadable == \A h \in Reachable : Readable(h)

\* the error class the reader owes for a damaged object
ErrorOf(h) ==
    CASE objects[h].kind = "missing" -> "FileNotFoundError"
      [] objects[h].kind = "corrupt" -> "zlib.error"
      [] objects[h].kind = "undecodable" -> "UnicodeDecodeError"
      [] OTHER -> ""

Returned_graph == main_commit_graph # None

\* the (parent, commit) pairs of a graph, in item order, then parent order
RECURSIVE EdgeList(_)
EdgeList(graph) ==
    IF graph = <<>> THEN <<>>
    ELSE [j \in 1..Len(graph[1][2]) |-> <<graph[1][2][j], graph[1][1]>>]
            \o EdgeList(Tail(graph))

-----------------------------------------------------------------------------
(* C1: when every object reachable from the start is a readable commit,    *)
(* get_commit_graph does not fail, and the graph it returns has exactly    *)
(* the reachable identifiers as keys, each once, each mapped to the        *)
(* ordered parent list written in its commit object.                       *)
C1_GraphIsReachableClosure ==
    AllReachableReadable =>
        /\ pc # "failed"
        /\ Returned_graph =>
              LET g == main_commit_graph[1]
              IN  /\ Keys(g) = Reachable
                  /\ Len(g) = Cardinality(Keys(g))
                  /\ \A i \in 1..Len(g) : g[i][2] = objects[g[i][1]].parents

\* a returned graph of three commits, one of them with two parents and
\* one with none
C1_Witness ==
    /\ Returned_graph
    /\ Cardinality(Keys(main_commit_graph[1])) = 3
    /\ \E i \in 1..3 : Len(main_commit_graph[1][i][2]) = 2
    /\ \E i \in 1..3 : main_commit_graph[1][i][2] = <<>>

(* C2: during one run of get_commit_graph, read_git_object is called at    *)
(* most once per identifier.                                               *)
C2_AtMostOneReadPerIdentifier == \A h \in DOMAIN reads : reads[h] <= 1

\* get_commit_graph has returned on a history in which a commit is listed
\* as a parent by two commits (a diamond), every commit read exactly once
C2_Witness ==
    /\ Returned_graph
    /\ \E h \in Commits :
          Cardinality({c \in Keys(main_commit_graph[1]) :
                          h \in Range(dict_get(main_commit_graph[1], c))}) >= 2
    /\ \A h \in Reachable : h \in DOMAIN reads /\ reads[h] = 1

(* C3: get_commit_graph terminates on every store: once main has started,  *)
(* it reaches its end or fails, whatever the shape of the parent links.    *)
C3_Terminates == (pc = "main") ~> (pc \in {"done", "failed"})

\* main ran to its end on a history whose parent links form a cycle
\* through the starting commit
C3_Witness ==
    /\ pc = "done"
    /\ \E h \in Reachable :
          Readable(h) /\ starting_commit_hash \in Range(objects[h].parents)

(* C4: when the reader fails for a reachable identifier, get_commit_graph  *)
(* fails with the reader's error for that identifier, read once; no graph  *)
(* reaches main, no diagram is generated and nothing is written.           *)
C4_FailureAbortsMain ==
    /\ pc = "failed" =>
          /\ error # None
          /\ error[1].during = "get_commit_graph"
          /\ error[1].hash \in Reachable
          /\ ~Readable(error[1].hash)
          /\ error[1].type = ErrorOf(error[1].hash)
          /\ reads[error[1].hash] = 1
    /\ ~AllReachableReadable =>
          /\ main_commit_graph = None
          /\ plantuml_code = None
          /\ graph_puml = None

\* the traversal failed on a damaged object after reading another commit
C4_Witness ==
    /\ pc = "failed"
    /\ error[1].type = "zlib.error"
    /\ Cardinality(DOMAIN reads) >= 2
    /\ graph_puml = None

(* C10: the graph get_commit_graph returns is closed under parents, so     *)
(* generate_plantuml_graph, decoding only keys and listed parents of an    *)
(* unchanged store, never fails.                                           *)
C10_RenderNeverFails ==
    /\ Returned_graph =>
          \A i \in 1..Len(main_commit_graph[1]) :
              /\ Readable(main_commit_graph[1][i][1])
              /\ Range(main_commit_graph[1][i][2]) \subseteq Keys(main_commit_graph[1])
    /\ error # None => error[1].during # "generate_plantuml_graph"

\* the diagram was generated from a graph with at least two edges
C10_Witness ==
    /\ plantuml_code # None
    /\ Len(EdgeList(main_commit_graph[1])) >= 2

-----------------------------------------------------------------------------
(* The commit text handed to get_commit_data, read independently of the    *)
(* decoder.                                                                *)

RECURSIVE LinesOf(_)
LinesOf(t) ==
    IF \A i \in 1..Len(t) : t[i] # NL THEN <<t>>
    ELSE LET at == SetMin({i \in 1..Len(t) : t[i] = NL})
         IN  <<SubSeq(t, 1, at - 1)>> \o LinesOf(SubSeq(t, at + 1, Len(t)))

TextLines == LinesOf(objects[data_hash].text)

\* index of the first empty line; past the last line when there is none
FirstEmpty ==
    SetMin({i \in 1..Len(TextLines) : TextLines[i] = <<>>} \cup {Len(TextLines) + 1})

BeginsWithParent(line) ==
    /\ Len(line) >= Len(ParentPrefix)
    /\ SubSeq(line, 1, Len(ParentPrefix)) = ParentPrefix

\* the header lines that begin with `parent `
ParentLineIdx == {i \in 1..(FirstEmpty - 1) : BeginsWithParent(TextLines[i])}

\* the lines after the first empty line, each followed by a newline
MessageBody ==
    Flatten([k \in 1..(Len(TextLines) - FirstEmpty) |->
                TextLines[FirstEmpty + k] \o <<NL>>])

RECURSIVE TrimLeft(_)
TrimLeft(t) ==
    IF t # <<>> /\ Head(t) \in Whitespace THEN TrimLeft(Tail(t)) ELSE t

RECURSIVE TrimRight(_)
TrimRight(t) ==
    IF t # <<>> /\ t[Len(t)] \in Whitespace
    THEN TrimRight(SubSeq(t, 1, Len(t) - 1)) ELSE t

\* t up to its first space
UpToSpace(t) ==
    SubSeq(t, 1, SetMin({i \in 1..Len(t) : t[i] = SP} \cup {Len(t) + 1}) - 1)

Decoded == commit_data # None

(* C5, as stated: for a commit text with no parent line in its header,     *)
(* get_commit_data returns no parents and the lines after the first empty  *)
(* line with only trailing whitespace removed, leading whitespace kept.    *)
C5_MessageRightTrimmedOnly ==
    (Decoded /\ ParentLineIdx = {}) =>
        /\ commit_data[1].ok
        /\ commit_data[1].parents = <<>>
        /\ commit_data[1].message = TrimRight(MessageBody)

(* C5, amended: for a commit text with no parent line in its header,       *)
(* get_commit_data returns no parents and the lines after the first empty  *)
(* line with both leading and trailing whitespace removed.                 *)
C5_MessageTrimmedBothEnds ==
    (Decoded /\ ParentLineIdx = {}) =>
        /\ commit_data[1].ok
        /\ commit_data[1].parents = <<>>
        /\ commit_data[1].message = TrimLeft(TrimRight(MessageBody))

\* a text without parent lines was decoded to a non-empty message that
\* had whitespace before its first and after its last printing character
C5_Witness ==
    /\ Decoded
    /\ ParentLineIdx = {}
    /\ commit_data[1].message # <<>>
    /\ Head(MessageBody) \in Whitespace
    /\ TrimRight(MessageBody) # TrimLeft(TrimRight(MessageBody))
    /\ Len(TrimRight(MessageBody)) + 1 < Len(MessageBody)

(* C6, as stated: the parents get_commit_data returns are, in order, the   *)
(* second whitespace-separated field of each header line that begins with  *)
(* `parent `; lines after the first empty line contribute none.            *)
C6_ParentsAreSecondFields ==
    Decoded =>
        /\ commit_data[1].ok
        /\ Len(commit_data[1].parents) = Cardinality(ParentLineIdx)
        /\ \A k \in 1..Cardinality(ParentLineIdx) :
              LET fields == split_ws(TextLines[Kth(ParentLineIdx, k)])
              IN  Len(fields) >= 2 => commit_data[1].parents[k] = fields[2]

(* C7: for a commit text without an empty line, get_commit_data does not   *)
(* fail, returns an empty message, and returns one parent for each line    *)
(* that begins with `parent `, in order: what follows the prefix up to     *)
(* the next space.                                                         *)
C7_NoSeparatorEmptyMessage ==
    (Decoded /\ FirstEmpty > Len(TextLines)) =>
        /\ commit_data[1].ok
        /\ commit_data[1].message = <<>>
        /\ Len(commit_data[1].parents) = Cardinality(ParentLineIdx)
        /\ \A k \in 1..Cardinality(ParentLineIdx) :
              commit_data[1].parents[k] =
                  UpToSpace(Drop(TextLines[Kth(ParentLineIdx, k)], Len(ParentPrefix)))

\* a text without an empty line was decoded and gave two parents, the
\* first of them not empty
C7_Witness ==
    /\ Decoded
    /\ FirstEmpty > Len(TextLines)
    /\ Len(commit_data[1].parents) = 2
    /\ commit_data[1].parents[1] # <<>>

-----------------------------------------------------------------------------
\* the identifiers generate_plantuml_graph decodes for a graph
GraphIds(graph) ==
    Keys(graph) \cup UNION { Range(graph[i][2]) : i \in 1..Len(graph) }

\* the written message of h with its whitespace characters removed
ExpectedLabel(h) == SelectSeq(objects[h].message, LAMBDA c : c \notin Whitespace)

(* C8: for a graph whose identifiers all decode, generate_plantuml_graph   *)
(* does not fail, and its text is the line `@startuml`, then for every     *)
(* (commit, parent) pair, in item order and then parent order, the three   *)
(* lines `participant <parent label> as <parent>`, `participant <commit    *)
(* label> as <commit>`, `"<parent>" --> "<commit>"`, then `@enduml`: one   *)
(* edge line per parent entry, none for a commit without parents.          *)
C8_DiagramFormat ==
    /\ (main_commit_graph # None
          /\ \A h \in GraphIds(main_commit_graph[1]) : Readable(h)) => pc # "failed"
    /\ plantuml_code # None =>
          LET edges == EdgeList(main_commit_graph[1])
              lines == LinesOf(plantuml_code[1])
          IN  /\ Len(lines) = 3 * Len(edges) + 2
              /\ lines[1] = <<"@startuml">>
              /\ lines[Len(lines)] = <<"@enduml">>
              /\ Cardinality({i \in 1..Len(lines) : "\" --> \"" \in Range(lines[i])})
                    = Len(edges)
              /\ \A k \in 1..Len(edges) :
                    LET parent == edges[k][1]
                        commit == edges[k][2]
                    IN  /\ lines[3 * k - 1] = <<"participant ">> \o ExpectedLabel(parent)
                                                \o <<" as ">> \o parent
                        /\ lines[3 * k] = <<"participant ">> \o ExpectedLabel(commit)
                                                \o <<" as ">> \o commit
                        /\ lines[3 * k + 1] = <<"\"">> \o parent \o <<"\" --> \"">>
                                                \o commit \o <<"\"">>

\* a diagram of three edges was generated from a graph that has a commit
\* without parents, a parent that is not a key, and a message with
\* whitespace inside
C8_Witness ==
    /\ plantuml_code # None
    /\ Len(EdgeList(main_commit_graph[1])) = MaxEdges
    /\ \E i \in 1..Len(main_commit_graph[1]) : main_commit_graph[1][i][2] = <<>>
    /\ GraphIds(main_commit_graph[1]) # Keys(main_commit_graph[1])
    /\ CommitSeq[3] \in Keys(main_commit_graph[1])

-----------------------------------------------------------------------------
\* an object file was written for the identifier
ObjectFileExists ==
    object_hash \in DOMAIN objects /\ objects[object_hash].kind # "missing"

(* C9, as stated: read_git_object called with an identifier for which no   *)
(* object file exists at the derived path raises FileNotFoundError, no     *)
(* other error, and returns no content.                                    *)
C9_AbsentObjectRaisesNotFound ==
    (read_result # None /\ ~ObjectFileExists) =>
        /\ ~read_result[1].ok
        /\ read_result[1].err = "FileNotFoundError"

====
